---- MODULE Spec2Model ----
(***************************************************************************)
(* Majjen: a cooperative scheduler (src/src/libs/majjen.c) with a fixed    *)
(* registry of MAX_TASKS slots, driven by the host (src/src/main.c).       *)
(*                                                                         *)
(* Pointers are modelled as small integers: NULL is 0, a pointer to an     *)
(* mj_task is a number of TaskIds and a task's state pointer is a number   *)
(* of CtxIds.  current_task (a pointer to a slot of task_list) is the      *)
(* index of the slot it points at, plus one, so that NULL stays 0.         *)
(***************************************************************************)
EXTENDS Integers, Sequences, FiniteSets, TLC

MAX_TASKS == 3

\* Bounds of the model: the tasks ever allocated, the largest k of a task
\* removing itself in its k-th invocation, the passes of one run.
MaxAdds == 3
MaxK == 3
MaxPasses == MaxK + 2

NULL == 0
Slots == 0 .. (MAX_TASKS - 1)
TaskIds == 1 .. MaxAdds
CtxOf(p) == p + 10
CtxIds == {CtxOf(p) : p \in TaskIds}

\* The callbacks a host can register.  FREE is a callback that calls the
\* scheduler API as it likes (any number of adds and removals, in any
\* invocation); k in 1..MaxK is main.c's increment with the limit set so
\* that it removes itself during its k-th invocation.
FREE == 0
Increments == 1 .. MaxK

\* A NULL passed as the callback.
NullFn == NULL - 1

VARIABLES
    task_list,      \* scheduler->task_list: Slots -> TaskIds or NULL
    current_task,   \* scheduler->current_task: slot index + 1, or NULL
    task_count,     \* scheduler->task_count
    alive,          \* the scheduler object is allocated
    tasks,          \* the mj_task structs: TaskIds -> [task, state, create, cleanup]
    theap,          \* allocation status of every mj_task struct
    cheap,          \* allocation status of every state (ctx) object
    val,            \* the integer a state object holds
    next_id,        \* the next mj_task / state address malloc hands out
    pc,             \* where the host / run loop is
    i,              \* the for loop's index in mj_scheduler_run
    passes,         \* iterations of the while loop in the current run
    visited,        \* the slots (and tasks) invoked so far in the current pass
    runK,           \* k if the run started with k-th-invocation removers only
    pass_start,     \* task_list as it was when the current pass began
    added,          \* the tasks callbacks added in the current pass: where
                    \* each was placed and where the sweep was at the time
    hooks,          \* the lifecycle hook invocations seen so far
    ev              \* the last operation and its result

vars == << task_list, current_task, task_count, alive, tasks, theap, cheap, val,
           next_id, pc, i, passes, visited, runK, pass_start, added, hooks, ev >>

sched == << task_list, current_task, task_count >>
heap == << tasks, theap, cheap, val, next_id >>
loop == << pc, i, passes, visited, runK, pass_start, added >>

NoTask == [task |-> FREE, state |-> NULL, create |-> FALSE, cleanup |-> FALSE]
NoHooks == [create |-> 0, cleanup |-> 0, cleanup_ctx |-> NULL, cleanup_live |-> TRUE,
            run_ctx |-> {}]

Occupied(tl) == {s \in Slots : tl[s] # NULL}

\* mj_scheduler_create: calloc gives an all-zero scheduler.
Init ==
    /\ task_list = [s \in Slots |-> NULL]
    /\ current_task = NULL
    /\ task_count = 0
    /\ alive = TRUE
    /\ tasks = [p \in TaskIds |-> NoTask]
    /\ theap = [p \in TaskIds |-> "unalloc"]
    /\ cheap = [c \in CtxIds |-> "unalloc"]
    /\ val = [c \in CtxIds |-> 0]
    /\ next_id = 1
    /\ pc = "host"
    /\ i = 0
    /\ passes = 0
    /\ visited = << >>
    /\ runK = 0
    /\ pass_start = [s \in Slots |-> NULL]
    /\ added = {}
    /\ hooks = [p \in TaskIds |-> NoHooks]
    /\ ev = [op |-> "create", res |-> 0]

----------------------------------------------------------------------------
(* mj_scheduler_task_add                                                   *)

\* "Scheduler is full"
IsFull(tc) == tc >= MAX_TASKS

\* "Find empty spot in task list": the scan for (i = 0; i < MAX_TASKS; i++).
HasEmpty(tl) == \E s \in Slots : tl[s] = NULL
FirstEmpty_append(tl) == Cardinality(Occupied(tl))
FirstEmpty_last(tl) == CHOOSE s \in Slots : tl[s] = NULL /\ \A t \in Slots : t > s => tl[t] # NULL
FirstEmpty(tl) == CHOOSE s \in Slots : tl[s] = NULL /\ \A t \in Slots : t < s => tl[t] # NULL

\* "Task list is full, can not add more tasks.": nothing is allocated, and
\* the caller gets -1.
AddFail_ok(tl, tc) == [tl |-> tl, tc |-> tc, res |-> 0, used |-> FALSE]
AddFail(tl, tc) == [tl |-> tl, tc |-> tc, res |-> -1, used |-> FALSE]

\* The registry after an add of the new task p: [tl, tc, res, used], where
\* used says whether the new mj_task struct was malloc'ed.
mj_scheduler_task_add(tl, tc, p) ==
    IF IsFull(tc)
    THEN AddFail(tl, tc)
    ELSE IF HasEmpty(tl)
         THEN [tl |-> [tl EXCEPT ![FirstEmpty(tl)] = p], tc |-> tc + 1,
               res |-> 0, used |-> TRUE]
         ELSE [tl |-> tl, tc |-> tc, res |-> -1, used |-> TRUE]

\* The effect of a call of mj_scheduler_task_add(scheduler, fn, state) with
\* a state object the caller has just allocated.
DoAdd(fn, who) ==
    LET p == next_id
        r == mj_scheduler_task_add(task_list, task_count, p)
    IN  /\ r.used => next_id <= MaxAdds
        /\ task_list' = r.tl
        /\ task_count' = r.tc
        /\ IF r.used
           THEN /\ tasks' = [tasks EXCEPT ![p] = [task |-> fn, state |-> CtxOf(p),
                                                  create |-> FALSE, cleanup |-> FALSE]]
                /\ theap' = [theap EXCEPT ![p] = "live"]
                /\ cheap' = [cheap EXCEPT ![CtxOf(p)] = "live"]
                /\ next_id' = next_id + 1
           ELSE UNCHANGED << tasks, theap, cheap, next_id >>
        /\ ev' = [op |-> who, res |-> r.res]
        /\ UNCHANGED << current_task, val >>

----------------------------------------------------------------------------
(* mj_scheduler_task_remove                                                *)

RemoveRejected(ct, tl) == ct = NULL \/ tl[ct - 1] = NULL

\* "Decrement task count safely"
DecCount_none(tc) == tc
DecCount(tc) == IF tc > 0 THEN tc - 1 ELSE tc

\* The registry a rejected removal leaves behind.
RemoveFail_dec(tl, ct, tc) == [tl |-> tl, ct |-> ct, tc |-> DecCount(tc), res |-> -1]
RemoveFail(tl, ct, tc) == [tl |-> tl, ct |-> ct, tc |-> tc, res |-> -1]

\* A removal that takes the highest occupied slot instead of the current one.
mj_scheduler_task_remove_highest(tl, ct, tc) ==
    IF RemoveRejected(ct, tl)
    THEN RemoveFail(tl, ct, tc)
    ELSE LET h == CHOOSE s \in Occupied(tl) : \A t \in Occupied(tl) : t <= s
         IN  [tl |-> [tl EXCEPT ![h] = NULL], ct |-> NULL, tc |-> DecCount(tc),
              res |-> 0]

\* The registry after mj_scheduler_task_remove: [tl, ct, tc, res].
mj_scheduler_task_remove(tl, ct, tc) ==
    IF RemoveRejected(ct, tl)
    THEN RemoveFail(tl, ct, tc)
    ELSE [tl |-> [tl EXCEPT ![ct - 1] = NULL], ct |-> NULL, tc |-> DecCount(tc),
          res |-> 0]

\* free(task->state): "Free state first"; a second free of the same object
\* is recorded as "double".
FreeState_leak(ch, c) == ch
FreeState(ch, c) == [ch EXCEPT ![c] = IF @ = "live" THEN "freed" ELSE "double"]

\* The effect of a call of mj_scheduler_task_remove(scheduler): on success
\* the state object and the mj_task struct are freed.
DoRemove(who) ==
    LET r == mj_scheduler_task_remove(task_list, current_task, task_count)
        p == IF current_task = NULL THEN NULL ELSE task_list[current_task - 1]
    IN  /\ task_list' = r.tl
        /\ current_task' = r.ct
        /\ task_count' = r.tc
        /\ IF r.res = 0
           THEN /\ cheap' = FreeState(cheap, tasks[p].state)
                /\ theap' = [theap EXCEPT ![p] = "freed"]
                /\ tasks' = [tasks EXCEPT ![p].state = NULL]
           ELSE UNCHANGED << cheap, theap, tasks >>
        /\ ev' = [op |-> who, res |-> r.res]
        /\ UNCHANGED << val, next_id >>

----------------------------------------------------------------------------
(* The host: main.c between its calls of the scheduler API.                *)

HostAdd ==
    /\ pc = "host" /\ alive
    /\ DoAdd(FREE, "add")
    /\ UNCHANGED << alive, loop, hooks >>

\* main.c: mj_scheduler_task_add(scheduler, increment, task_1_state)
HostAddIncrement ==
    /\ pc = "host" /\ alive
    /\ \E k \in Increments : DoAdd(k, "add")
    /\ UNCHANGED << alive, loop, hooks >>

HostRemove ==
    /\ pc = "host" /\ alive
    /\ DoRemove("remove")
    /\ UNCHANGED << alive, loop, hooks >>

\* mj_scheduler_destroy: free(shed), return 0.
mj_scheduler_destroy ==
    /\ pc = "host" /\ alive
    /\ alive' = FALSE
    /\ pc' = "destroyed"
    /\ ev' = [op |-> "destroy", res |-> 0]
    /\ UNCHANGED << sched, heap, i, passes, visited, runK, pass_start, added, hooks >>

----------------------------------------------------------------------------
(* mj_scheduler_run                                                        *)

\* k when every registered task is an increment callback removing itself
\* during its k-th invocation, 0 otherwise.
AllRemoveAt(tl) ==
    IF \E k \in Increments : \A s \in Occupied(tl) : tasks[tl[s]].task = k
    THEN CHOOSE k \in Increments : \A s \in Occupied(tl) : tasks[tl[s]].task = k
    ELSE 0

\* if (scheduler->task_count == 0): "Cant run with zero tasks."
RunRejects_never(tc) == FALSE
RunRejects(tc) == tc = 0

\* The entry of mj_scheduler_run: the run is rejected, or the loop starts.
RunCall ==
    /\ pc = "host" /\ alive
    /\ IF RunRejects(task_count)
       THEN /\ ev' = [op |-> "run_rejected", res |-> -1]
            /\ UNCHANGED << pc, passes, visited, runK, added >>
       ELSE /\ pc' = "while"
            /\ passes' = 0
            /\ visited' = << >>
            /\ added' = {}
            /\ runK' = AllRemoveAt(task_list)
            /\ ev' = [op |-> "run_enter", res |-> 0]
    /\ UNCHANGED << sched, alive, heap, i, pass_start, hooks >>

\* while (scheduler->task_count > 0)
WhileCond_one(tc) == tc > 1
WhileCond_ge(tc) == tc >= 0
WhileCond(tc) == tc > 0

\* for (int i = MAX_TASKS - 1; i >= 0; i--)
SweepFirst_short == MAX_TASKS - 2
SweepFirst == MAX_TASKS - 1
SweepNext(j) == j - 1
SweepDone(j) == j < 0

\* The sweep's test of a slot, and one that looks at the registry as it was
\* when the pass began.
SlotEmpty_snapshot(j) == pass_start[j] = NULL
SlotEmpty(j) == task_list[j] = NULL

WhileCheck ==
    /\ pc = "while"
    /\ IF WhileCond(task_count)
       THEN /\ passes < MaxPasses
            /\ passes' = passes + 1
            /\ i' = SweepFirst
            /\ visited' = << >>
            /\ pass_start' = task_list
            /\ added' = {}
            /\ pc' = "for"
            /\ ev' = [op |-> "pass", res |-> 0]
       ELSE /\ pc' = "host"
            /\ ev' = [op |-> "run_return", res |-> 0]
            /\ UNCHANGED << passes, i, visited, pass_start, added >>
    /\ UNCHANGED << sched, alive, heap, runK, hooks >>

\* One step of the for loop: the end of the pass, an empty slot skipped, or
\* the slot's task invoked with its state.
ForStep ==
    /\ pc = "for"
    /\ IF SweepDone(i)
       THEN /\ pc' = "while"
            /\ ev' = [op |-> "pass_end", res |-> 0]
            /\ UNCHANGED << i, current_task, visited, hooks >>
       ELSE IF SlotEmpty(i)
            THEN /\ i' = SweepNext(i)
                 /\ ev' = [op |-> "skip", res |-> 0]
                 /\ UNCHANGED << pc, current_task, visited, hooks >>
            ELSE LET p == task_list[i] IN
                 /\ current_task' = i + 1
                 /\ visited' = Append(visited, [slot |-> i, task |-> p])
                 /\ hooks' = [hooks EXCEPT ![p].run_ctx = @ \cup {tasks[p].state}]
                 /\ pc' = "task"
                 /\ ev' = [op |-> "invoke", res |-> 0]
                 /\ UNCHANGED i
    /\ UNCHANGED << task_list, task_count, alive, heap, passes, runK, pass_start, added >>

\* The task whose callback is running: the one invoked last.
Running == visited[Len(visited)].task

\* main.c's increment, with limit k - 1 and a state that starts at 0: it
\* removes itself when the state has reached the limit, else counts up.
increment ==
    /\ pc = "task"
    /\ tasks[Running].task # FREE
    /\ LET c == CtxOf(Running) IN
       IF val[c] >= tasks[Running].task - 1
       THEN /\ DoRemove("task_remove")
       ELSE /\ val' = [val EXCEPT ![c] = @ + 1]
            /\ ev' = [op |-> "count", res |-> 0]
            /\ UNCHANGED << sched, tasks, theap, cheap, next_id >>
    /\ pc' = "ret"
    /\ UNCHANGED << alive, i, passes, visited, runK, pass_start, added, hooks >>

\* The record of an add a callback makes while the sweep is at slot i: the
\* new task, the slot the add gave it and the sweep's position.
LogAdd ==
    LET r == mj_scheduler_task_add(task_list, task_count, next_id)
    IN  IF r.res = 0
        THEN added \cup {[task |-> next_id,
                          slot |-> CHOOSE s \in Slots : r.tl[s] = next_id,
                          at |-> i]}
        ELSE added

\* A callback that calls mj_scheduler_task_add.
TaskAdd ==
    /\ pc = "task"
    /\ tasks[Running].task = FREE
    /\ DoAdd(FREE, "task_add")
    /\ added' = LogAdd
    /\ UNCHANGED << alive, pc, i, passes, visited, runK, pass_start, hooks >>

\* A callback that calls mj_scheduler_task_remove.
TaskRemove ==
    /\ pc = "task"
    /\ tasks[Running].task = FREE
    /\ DoRemove("task_remove")
    /\ UNCHANGED << alive, loop, hooks >>

\* "reset current function, should only be availible from the task that
\* just ran": scheduler->current_task = NULL.
ResetCurrent_keep(ct) == ct
ResetCurrent(ct) == NULL

\* The callback returns: "reset current function", then i--.
TaskReturn ==
    /\ pc \in {"task", "ret"}
    /\ pc = "task" => tasks[Running].task = FREE
    /\ current_task' = ResetCurrent(current_task)
    /\ i' = SweepNext(i)
    /\ pc' = "for"
    /\ ev' = [op |-> "return", res |-> 0]
    /\ UNCHANGED << task_list, task_count, alive, heap, passes, visited, runK, pass_start, added, hooks >>

\* mj_scheduler_task_add(scheduler, NULL, state): the callback is not looked
\* at, the task is stored like any other.
HostAddNull ==
    /\ pc = "host" /\ alive
    /\ DoAdd(NullFn, "add_null")
    /\ UNCHANGED << alive, loop, hooks >>

\* task(scheduler, state) with task == NULL: the call of a null function
\* pointer ends the program.
CallNull ==
    /\ pc = "task"
    /\ tasks[Running].task = NullFn
    /\ pc' = "crashed"
    /\ ev' = [op |-> "crash", res |-> -1]
    /\ UNCHANGED << sched, alive, heap, i, passes, visited, runK, pass_start, added, hooks >>

\* The steps of mj_scheduler_run and of the callbacks it invokes.
RunLoop == WhileCheck \/ ForStep \/ TaskReturn

\* Any host, with callbacks that use the API as they like.
Next == HostAdd \/ HostRemove \/ mj_scheduler_destroy \/ RunCall \/ RunLoop
        \/ TaskAdd \/ TaskRemove

Spec == Init /\ [][Next]_vars

\* A host that may also pass NULL as the callback.
NextN == Next \/ HostAddNull \/ CallNull

SpecN == Init /\ [][NextN]_vars

\* A host like main.c: it registers increment callbacks, and callbacks that
\* only return, and runs them.  The run loop is sequential code: it keeps
\* taking its steps.
NextK == HostAdd \/ HostAddIncrement \/ HostRemove \/ RunCall \/ RunLoop \/ increment

SpecK == Init /\ [][NextK]_vars /\ WF_vars(RunLoop \/ increment)

\* Scenario B: task A removes itself in its second invocation and task B in
\* its fifth; A is added first, B second, and the run starts with the two.
ScenarioB == [A |-> 2, B |-> 5]

HostAddB ==
    /\ pc = "host" /\ alive
    /\ next_id <= 2
    /\ DoAdd(IF next_id = 1 THEN ScenarioB.A ELSE ScenarioB.B, "add")
    /\ UNCHANGED << alive, loop, hooks >>

RunScenario == next_id = 3 /\ RunCall

\* A callback that, its own work done, adds the new task C once A has
\* removed itself; C is an increment with any limit.
IncrementAdds ==
    /\ pc = "ret"
    /\ theap[1] = "freed" /\ next_id = 3
    /\ \E k \in Increments : DoAdd(k, "task_add")
    /\ added' = LogAdd
    /\ UNCHANGED << alive, pc, i, passes, visited, runK, pass_start, hooks >>

NextB == HostAddB \/ RunScenario \/ RunLoop \/ increment \/ IncrementAdds

SpecB == Init /\ [][NextB]_vars

----------------------------------------------------------------------------
(* The hooked task bundle of demo_task.h: an mj_task carries create, run,  *)
(* cleanup and ctx.  demo_task.c builds such bundles and calls             *)
(* mj_scheduler_task_remove_current; the add and the removal that honour   *)
(* the hooks are not part of majjen.c, and are modelled from the           *)
(* specification (sections 3, 4.1 and 4.3).                                *)

\* add_task: CapacityExceeded on a full registry; else the first empty slot
\* in ascending order is occupied, count is incremented, and create, if
\* present, is invoked once.
add_task(tl, tc, p) ==
    IF tc >= MAX_TASKS
    THEN [tl |-> tl, tc |-> tc, res |-> -1, used |-> FALSE]
    ELSE [tl |-> [tl EXCEPT ![FirstEmpty(tl)] = p], tc |-> tc + 1, res |-> 0,
          used |-> TRUE]

\* "create, if present, is invoked once, at the moment a task is accepted
\* into a slot"
InvokeCreate_never(hk, p, create) == hk
InvokeCreate(hk, p, create) == IF create THEN [hk EXCEPT ![p].create = @ + 1] ELSE hk

DoAddTask(create, cleanup, who) ==
    LET p == next_id
        r == add_task(task_list, task_count, p)
    IN  /\ r.used => next_id <= MaxAdds
        /\ task_list' = r.tl
        /\ task_count' = r.tc
        /\ IF r.used
           THEN /\ tasks' = [tasks EXCEPT ![p] = [task |-> FREE, state |-> CtxOf(p),
                                                  create |-> create, cleanup |-> cleanup]]
                /\ theap' = [theap EXCEPT ![p] = "live"]
                /\ cheap' = [cheap EXCEPT ![CtxOf(p)] = "live"]
                /\ next_id' = next_id + 1
                /\ hooks' = InvokeCreate(hooks, p, create)
           ELSE UNCHANGED << tasks, theap, cheap, next_id, hooks >>
        /\ ev' = [op |-> who, res |-> r.res]
        /\ UNCHANGED << current_task, val >>

\* The steps of a successful remove_current on the task p, on the pair
\* h = [cheap, hooks]: "if cleanup is present, invoke it with the task's
\* ctx", and "release the ctx resource".
InvokeCleanup(h, p) ==
    IF tasks[p].cleanup
    THEN [h EXCEPT !.hooks[p].cleanup = @ + 1,
                   !.hooks[p].cleanup_ctx = tasks[p].state,
                   !.hooks[p].cleanup_live = (h.cheap[tasks[p].state] = "live")]
    ELSE h
ReleaseCtx(h, p) == [h EXCEPT !.cheap[tasks[p].state] = "freed"]

\* "invoke cleanup; then release the ctx"
ReleaseTask_ctx_first(h, p) == InvokeCleanup(ReleaseCtx(h, p), p)
ReleaseTask(h, p) == ReleaseCtx(InvokeCleanup(h, p), p)

\* remove_current: InvalidState with no state change unless currentSlot
\* refers to an occupied slot; else cleanup, release of the ctx and of the
\* task, the slot cleared, currentSlot cleared, count decremented.
DoRemoveCurrent(who) ==
    IF current_task = NULL \/ task_list[current_task - 1] = NULL
    THEN /\ ev' = [op |-> who, res |-> -1]
         /\ UNCHANGED << sched, heap, hooks >>
    ELSE LET p == task_list[current_task - 1]
             h == ReleaseTask([cheap |-> cheap, hooks |-> hooks], p)
         IN  /\ cheap' = h.cheap
             /\ hooks' = h.hooks
             /\ theap' = [theap EXCEPT ![p] = "freed"]
             /\ task_list' = [task_list EXCEPT ![current_task - 1] = NULL]
             /\ current_task' = NULL
             /\ task_count' = task_count - 1
             /\ ev' = [op |-> who, res |-> 0]
             /\ UNCHANGED << tasks, val, next_id >>

HostAddTask ==
    /\ pc = "host" /\ alive
    /\ \E create, cleanup \in BOOLEAN : DoAddTask(create, cleanup, "add")
    /\ UNCHANGED << alive, loop >>

HostRemoveCurrent ==
    /\ pc = "host" /\ alive
    /\ DoRemoveCurrent("remove")
    /\ UNCHANGED << alive, loop >>

\* A run hook that adds a task.
TaskAddTask ==
    /\ pc = "task"
    /\ \E create, cleanup \in BOOLEAN : DoAddTask(create, cleanup, "task_add")
    /\ UNCHANGED << alive, loop >>

\* A run hook that removes its task, as demo_task_run does.
TaskRemoveCurrent ==
    /\ pc = "task"
    /\ DoRemoveCurrent("task_remove")
    /\ UNCHANGED << alive, loop >>

\* The scheduler with hooked tasks; mj_scheduler_run is the loop of majjen.c.
NextH == HostAddTask \/ HostRemoveCurrent \/ RunCall \/ RunLoop \/ TaskAddTask
         \/ TaskRemoveCurrent

SpecH == Init /\ [][NextH]_vars

----------------------------------------------------------------------------
(* The registry                                                            *)

\* C1: in every reachable state, between operations and at every callback
\* boundary, task_count is the number of non-empty slots of task_list.
CountIsOccupied == task_count = Cardinality(Occupied(task_list))

\* A task has removed itself during a run and one task is left.
CountIsOccupied_witness ==
    /\ ev.op = "task_remove" /\ ev.res = 0
    /\ pc = "task"
    /\ task_count = 1

\* C2: a removal called while current_task is NULL returns -1 and leaves
\* every slot, task_count and current_task as they were.
RemoveOutsideFails ==
    [][(ev'.op \in {"remove", "task_remove"} /\ current_task = NULL)
         => (ev'.res = -1 /\ UNCHANGED << task_list, task_count, current_task >>)]_vars

\* The host has called the removal outside of a run, with tasks registered.
RemoveOutsideFails_witness ==
    /\ ev.op = "remove" /\ ev.res = -1
    /\ pc = "host"
    /\ task_count > 0

\* C3: mj_scheduler_task_add on a full registry returns -1 and leaves all
\* slots and task_count as they were, for the host and for a running task.
AddOnFullFails ==
    [][(ev'.op \in {"add", "task_add"} /\ task_count = MAX_TASKS)
         => (ev'.res = -1 /\ UNCHANGED << task_list, task_count >>)]_vars

\* A running task has called add on the full registry.
AddOnFullFails_witness ==
    /\ ev.op = "task_add" /\ ev.res = -1
    /\ task_count = MAX_TASKS

----------------------------------------------------------------------------
(* The run loop                                                            *)

\* C4: when every registered task removes itself during its k-th
\* invocation, mj_scheduler_run returns after exactly k passes with
\* task_count = 0.
KPasses == (ev.op = "run_return" /\ runK > 0) => (passes = runK /\ task_count = 0)

\* A run of tasks that remove themselves in their MaxK-th invocation is over.
KPasses_witness == ev.op = "run_return" /\ runK = MaxK /\ passes = MaxK

\* A callback that only returns is registered.
NeverRemoves == \E s \in Slots : task_list[s] # NULL /\ tasks[task_list[s]].task = FREE

\* C5: mj_scheduler_run returns only with task_count = 0; it does not
\* return while a task that never removes itself is registered, and it
\* does return when every task removes itself.
RunReturnsWhenEmpty ==
    /\ [](ev.op = "run_return" => (task_count = 0 /\ Occupied(task_list) = {}))
    /\ [][NeverRemoves => ev'.op # "run_return"]_vars
    /\ ((pc # "host" /\ runK > 0) ~> (ev.op = "run_return"))

\* A run of MAX_TASKS self-removing tasks has returned.
RunReturnsWhenEmpty_witness ==
    /\ ev.op = "run_return" /\ runK > 0
    /\ next_id > MAX_TASKS
    /\ \A p \in 1 .. MAX_TASKS : theap[p] = "freed"

\* C6: within every pass the occupied slots are visited in ascending
\* slot-index order.
AscendingSweep ==
    \A a, b \in 1 .. Len(visited) : a < b => visited[a].slot < visited[b].slot

\* C7: as long as no task was removed, every pass invokes the tasks oldest
\* first (tasks are numbered in the order of their adds).
OldestFirst ==
    (\A p \in TaskIds : theap[p] # "freed")
        => \A a, b \in 1 .. Len(visited) : a < b => visited[a].task < visited[b].task

\* C8: mj_scheduler_destroy with task_count > 0 returns an error and
\* releases nothing; with task_count = 0 it succeeds and releases the
\* scheduler.
DestroyBusy ==
    ev.op = "destroy" =>
        IF task_count > 0 THEN ev.res = -1 /\ alive ELSE ev.res = 0 /\ ~alive

\* main.c: main adds three tasks, each with a state object it has just
\* allocated, runs the scheduler, and then reads the three state objects.
\* The limit of each task is drawn from Increments.
MainTasks == 3

MainAdd ==
    /\ pc = "host" /\ alive
    /\ ev.op \in {"create", "add"}
    /\ next_id <= MainTasks
    /\ \E k \in Increments : DoAdd(k, "add")
    /\ UNCHANGED << alive, loop, hooks >>

MainRun == ev.op = "add" /\ next_id = MainTasks + 1 /\ RunCall

\* printf("\nremaning state 1: %d", *task_1_state), then 2, then 3.
MainRead ==
    /\ pc = "host"
    /\ \/ ev.op = "run_return"
       \/ ev.op = "read" /\ ev.res < MainTasks
    /\ ev' = [op |-> "read", res |-> IF ev.op = "read" THEN ev.res + 1 ELSE 1]
    /\ UNCHANGED << sched, alive, heap, loop, hooks >>

NextM == MainAdd \/ MainRun \/ RunLoop \/ increment \/ MainRead

SpecM == Init /\ [][NextM]_vars

\* C10: mj_scheduler_run with task_count = 0 is rejected at once: no pass,
\* no callback, and slots, task_count and current_task stay as they were.
RunEmptyRejected ==
    [][(ev'.op \in {"run_rejected", "run_enter"} /\ task_count = 0)
         => /\ ev'.op = "run_rejected" /\ ev'.res = -1
            /\ pc' = "host"
            /\ UNCHANGED << task_list, task_count, current_task, passes, visited >>]_vars

\* The host has called run on a registry that an earlier run has drained.
RunEmptyRejected_witness ==
    /\ ev.op = "run_rejected"
    /\ task_count = 0
    /\ passes > 0

----------------------------------------------------------------------------
(* The lifecycle hooks                                                     *)

----------------------------------------------------------------------------
(* Arguments, current_task and ownership                                   *)

\* C11: mj_scheduler_task_add with a NULL callback returns an error and
\* changes nothing, so no occupied slot holds a task whose callback is NULL.
NullAddRejected ==
    /\ ev.op = "add_null" => ev.res = -1
    /\ \A s \in Slots : task_list[s] # NULL => tasks[task_list[s]].task # NullFn

\* C12: current_task is non-NULL only inside one task invocation, and then
\* points at the slot of the task being invoked; it is NULL in the initial
\* state, whenever no invocation is in progress, and after the run returns.
CurrentOnlyInInvocation ==
    /\ current_task # NULL =>
          /\ pc \in {"task", "ret"}
          /\ current_task = i + 1
          /\ visited[Len(visited)].slot = i
          /\ task_list[i] = Running
    /\ pc \notin {"task", "ret"} => current_task = NULL
    /\ ev.op \in {"create", "run_return", "invoke"} =>
          (current_task # NULL <=> ev.op = "invoke")

\* The second pass is inside the invocation of the task of slot 0, with
\* another task registered.
CurrentOnlyInInvocation_witness ==
    /\ pc = "task" /\ passes = 2
    /\ current_task = 1 /\ task_list[0] # NULL
    /\ task_count = 2

InvokedInPass(p) == Cardinality({a \in DOMAIN visited : visited[a].task = p})

\* C14: in scenario B the new task C (task 3) is placed in slot 0, which A
\* (task 1) vacated, and B (task 2) behaves as it does without C: it stays
\* in slot 1, is invoked once per pass, its state after pass n is n, and it
\* removes itself in pass 5 and is not invoked after it, whether and whenever
\* C is added.
BUnaffected ==
    /\ theap[1] = "live" => task_list[0] = 1
    /\ theap[3] = "live" => (task_list[0] = 3 /\ theap[1] = "freed")
    /\ InvokedInPass(2) <= 1
    /\ theap[2] = "live" => task_list[1] = 2
    /\ theap[2] = "freed" => passes >= ScenarioB.B
    /\ ev.op = "pass_end" =>
          IF passes < ScenarioB.B
          THEN /\ theap[2] = "live" /\ InvokedInPass(2) = 1
               /\ val[CtxOf(2)] = passes
          ELSE /\ theap[2] = "freed"
               /\ InvokedInPass(2) = (IF passes = ScenarioB.B THEN 1 ELSE 0)

\* Pass 5 is over: B has removed itself in it, with C registered since A's
\* removal.
BUnaffected_witness ==
    /\ ev.op = "pass_end" /\ passes = ScenarioB.B
    /\ theap[2] = "freed" /\ InvokedInPass(2) = 1
    /\ theap[3] = "live" /\ task_list[0] = 3

----------------------------------------------------------------------------
(* Frames of add and remove, and the sweep                                 *)

\* C16: a successful mj_scheduler_task_add puts the new task in the
\* lowest-index empty slot, also one vacated by a removal, and increments
\* task_count by one; the occupied slots, their tasks and their states stay
\* as they are, and a task keeps its slot until its own removal.
AddLowestEmpty ==
    /\ [][(ev'.op \in {"add", "task_add"} /\ ev'.res = 0) =>
            /\ \E s \in Slots :
                  /\ task_list[s] = NULL
                  /\ \A t \in Slots : t < s => task_list[t] # NULL
                  /\ task_list' = [task_list EXCEPT ![s] = next_id]
            /\ task_count' = task_count + 1
            /\ val' = val
            /\ \A p \in TaskIds : theap[p] = "live" =>
                  /\ tasks'[p] = tasks[p]
                  /\ theap'[p] = "live"
                  /\ cheap'[CtxOf(p)] = cheap[CtxOf(p)]]_vars
    /\ [][\A s \in Slots :
            (task_list[s] # NULL /\ theap'[task_list[s]] = "live")
                => task_list'[s] = task_list[s]]_vars

\* A running task has added the third task into slot 0, which the first
\* task vacated, next to the second task in slot 1.
AddLowestEmpty_witness ==
    /\ ev.op = "task_add" /\ ev.res = 0
    /\ theap[1] = "freed"
    /\ task_list[0] = 3 /\ task_list[1] = 2

\* C17: a successful removal during the invocation of task T empties exactly
\* T's slot, clears current_task and decrements task_count by one; every
\* other slot, task and state object is unchanged, so a task removes no task
\* but itself.
RemoveOnlySelf ==
    [][(ev'.op \in {"remove", "task_remove"} /\ ev'.res = 0) =>
         /\ pc = "task" /\ visited # << >>
         /\ LET T == Running
                s == visited[Len(visited)].slot
            IN  /\ task_list[s] = T /\ current_task = s + 1
                /\ task_list' = [task_list EXCEPT ![s] = NULL]
                /\ current_task' = NULL
                /\ task_count' = task_count - 1
                /\ theap[T] = "live" /\ theap'[T] = "freed"
                /\ val' = val
                /\ \A p \in TaskIds \ {T} :
                      /\ tasks'[p] = tasks[p]
                      /\ theap'[p] = theap[p]
                      /\ cheap'[CtxOf(p)] = cheap[CtxOf(p)]]_vars

\* The task in the middle slot has removed itself and its two neighbours are
\* still registered and allocated.
RemoveOnlySelf_witness ==
    /\ ev.op = "task_remove" /\ ev.res = 0
    /\ task_list[1] = NULL
    /\ task_list[0] # NULL /\ theap[task_list[0]] = "live"
    /\ task_list[2] # NULL /\ theap[task_list[2]] = "live"

\* The tasks invoked so far in the current pass.
VisitedTasks == {visited[a].task : a \in DOMAIN visited}

\* A pass is under way, or has just ended.
InPass == pc \in {"for", "task", "ret"}
PassOver == pc = "while" /\ ev.op = "pass_end"

\* The sweep of the current pass has reached slot s.
Swept(s) == s > i \/ (s = i /\ pc \in {"task", "ret"}) \/ PassOver

\* C18: in each pass every task that was in its slot when the pass began is
\* invoked once the sweep has reached its slot, no task is invoked twice in a
\* pass, and an invocation begins only when no other is active.
OncePerPass ==
    /\ []((InPass \/ PassOver) =>
            /\ \A a, b \in DOMAIN visited :
                  a # b => (/\ visited[a].task # visited[b].task
                            /\ visited[a].slot # visited[b].slot)
            /\ \A s \in Slots : (pass_start[s] # NULL /\ Swept(s))
                  => pass_start[s] \in VisitedTasks)
    /\ [][ev'.op = "invoke" =>
            /\ pc = "for" /\ current_task = NULL
            /\ pc' = "task" /\ current_task' # NULL
            /\ Len(visited') = Len(visited) + 1]_vars

\* A pass over a full registry has ended with its three tasks invoked, the
\* second of which removed itself on the way.
OncePerPass_witness ==
    /\ PassOver
    /\ Len(visited) = MAX_TASKS
    /\ \A s \in Slots : pass_start[s] # NULL
    /\ task_list[1] = NULL

\* C19: a task a callback adds during a pass is invoked in that pass if and
\* only if its slot is one the sweep had not reached when it was added; a
\* task put into the slot its adder has just vacated, or into any slot the
\* sweep had passed, is not invoked in that pass.
AddedMidPass ==
    (InPass \/ PassOver) =>
        \A a \in added :
            /\ a.slot >= a.at => a.task \notin VisitedTasks
            /\ (a.slot < a.at /\ Swept(a.slot)) => a.task \in VisitedTasks

\* A pass has ended in which a task removed itself and added a new task, which
\* took the vacated slot and was not invoked.
AddedMidPass_witness ==
    /\ PassOver
    /\ \E a \in added :
          /\ a.slot = a.at
          /\ task_list[a.slot] = a.task
          /\ a.task \notin VisitedTasks
          /\ \E b \in DOMAIN visited :
                visited[b].slot = a.slot /\ theap[visited[b].task] = "freed"

\* C20: after mj_scheduler_run has returned, each of the three state objects
\* main reads is still allocated.
MainReadsLive ==
    ev.op = "read" => cheap[CtxOf(ev.res)] = "live"

====
